---- MODULE Spec2Model ----
(***************************************************************************)
(* A model of goxpp's XMLPullParser (src/xpp.go): the pull cursor over an *)
(* encoding/xml token stream, its depth counter, its namespace stack and   *)
(* its xml:base stack.                                                     *)
(*                                                                         *)
(* The token source (xml.Decoder) is outside the repository.  It is        *)
(* modelled by what the parser can observe of it: every call of            *)
(* decoder.Token() returns, nondeterministically, one of the tokens a      *)
(* decoder can return in its current state (it keeps its own stack of open *)
(* elements, so end tags always match), end of input, or a syntax error.   *)
(***************************************************************************)
EXTENDS Integers, Sequences, FiniteSets, TLC

-----------------------------------------------------------------------------
(* Bounds of the model *)

\* most tokens one call of Next, NextTag or Skip fetches
MaxRun == 3

\* most tokens one call of NextText fetches
MaxTextRun == 4

\* most start elements the token source produces in all, and so the deepest
\* nesting
MaxElements == 2

-----------------------------------------------------------------------------
(* Constants of src/xpp.go *)

xmlNSURI == "http://www.w3.org/XML/1998/namespace"

xmlnsPrefix == "xmlns"

StartDocument == 0

EndDocument == 1

StartTag == 2

EndTag == 3

Text == 4

Comment == 5

ProcessingInstruction == 6

Directive == 7

IgnorableWhitespace == 8

\* the nil error
nil == "nil"

\* io.EOF
EOF == "EOF"

-----------------------------------------------------------------------------
(* net/url, as far as the parser uses it.  A URL is [Scheme, Host, Path];  *)
(* Path is the sequence of its "/" separators and segments, so that        *)
(* "/dir/y" is <<"/", "dir", "/", "y">> and "" is << >>.                   *)

nilURL == [isNil |-> TRUE]

URL(scheme, host, path) == [Scheme |-> scheme, Host |-> host, Path |-> path]

\* url.Parse(s): [url, err]
urlParse(s) ==
    CASE s = "http://x/dir/" -> [url |-> URL("http", "x", <<"/", "dir", "/">>), err |-> nil]
      [] s = "http://x/dir"  -> [url |-> URL("http", "x", <<"/", "dir">>), err |-> nil]
      [] s = "y/"            -> [url |-> URL("", "", <<"y", "/">>), err |-> nil]
      [] s = "z"             -> [url |-> URL("", "", <<"z">>), err |-> nil]
      [] s = ""              -> [url |-> URL("", "", << >>), err |-> nil]
      [] OTHER               -> [url |-> nilURL, err |-> "invalid URL escape"]

\* strings.LastIndex(path, "/") + 1: the length of the prefix that ends with
\* the last "/", 0 when there is none
LastSlash(path) ==
    LET at == {i \in 1..Len(path) : path[i] = "/"}
    IN  IF at = {} THEN 0 ELSE CHOOSE i \in at : \A j \in at : j <= i

\* url.resolvePath(base, ref); no path of the model has "." or ".." segments,
\* so removing them only roots the result
resolvePath(base, ref) ==
    LET full == IF ref = << >> THEN base
                ELSE IF ref[1] # "/" THEN SubSeq(base, 1, LastSlash(base)) \o ref
                ELSE ref
    IN  IF full = << >> THEN << >>
        ELSE IF full[1] = "/" THEN full
        ELSE <<"/">> \o full

\* (*url.URL).ResolveReference: a new URL, u is left alone
ResolveReference(u, ref) ==
    IF ref.Scheme # "" \/ ref.Host # ""
    THEN URL(ref.Scheme, ref.Host, resolvePath(ref.Path, << >>))
    ELSE URL(u.Scheme, u.Host, resolvePath(u.Path, ref.Path))

-----------------------------------------------------------------------------
(* strings.TrimSpace and strings.ToLower on the strings of the model *)

TrimSpace(s) ==
    CASE s = " u2 " -> "u2"
      [] s = " "    -> ""
      [] OTHER      -> s

ToLower(s) ==
    CASE s = "P" -> "p"
      [] OTHER   -> s

-----------------------------------------------------------------------------
(* encoding/xml tokens *)

XMLName(space, local) == [Space |-> space, Local |-> local]

XMLAttr(space, local, value) == [Name |-> XMLName(space, local), Value |-> value]

nilToken == [kind |-> "nil"]

StartElement(name, attr) == [kind |-> "StartElement", Name |-> name, Attr |-> attr]

EndElement(name) == [kind |-> "EndElement", Name |-> name]

CharData(s) == [kind |-> "CharData", Data |-> s]

XMLComment(s) == [kind |-> "Comment", Data |-> s]

ProcInst(target, inst) == [kind |-> "ProcInst", Target |-> target, Inst |-> inst]

XMLDirective(s) == [kind |-> "Directive", Data |-> s]

BaseAttr(v) == XMLAttr(xmlNSURI, "base", v)

\* the start elements of a document that declares base URLs: absolute,
\* relative and unparsable xml:base values
BaseElements ==
    { StartElement(XMLName("", "a"), << >>),
      StartElement(XMLName("", "a"), <<BaseAttr("http://x/dir/")>>),
      StartElement(XMLName("u1", "b"), <<BaseAttr("y/")>>),
      StartElement(XMLName("", "a"), <<BaseAttr("%zz")>>) }

\* the start elements of a document whose base URL names a file: its path
\* does not end with a slash
FileElements ==
    { StartElement(XMLName("", "a"), <<BaseAttr("http://x/dir")>>),
      StartElement(XMLName("u1", "b"), <<BaseAttr("y/")>>) }

\* the start elements of a document that declares namespaces: a prefix, the
\* same prefix again for another URI, and a default namespace
SpaceElements ==
    { StartElement(XMLName("", "a"), << >>),
      StartElement(XMLName("u1", "b"), << >>),
      StartElement(XMLName("", "a"), <<XMLAttr(xmlnsPrefix, "p", "u1")>>),
      StartElement(XMLName("u1", "b"), <<XMLAttr(xmlnsPrefix, "P", " u2 ")>>),
      StartElement(XMLName("u1", "b"), <<XMLAttr("", xmlnsPrefix, "u1"),
                                         XMLAttr("", "id", "1")>>) }

\* the tokens that are neither start nor end elements
OtherTokens ==
    { CharData(" "), CharData("hello"), XMLComment("c"),
      ProcInst("xml", "version"), XMLDirective("DOCTYPE") }

\* the two of them the documents with attributes are made of
FewTokens == {CharData("hello"), XMLComment("c")}

\* every kind of token between the tags, with one kind of text
KindTokens == OtherTokens \ {CharData(" ")}

\* text, blank or not, and comments
TextTokens == FewTokens \cup {CharData(" "), CharData("world")}

\* the start element of a document made of every kind of token: one with a
\* namespace and an attribute
KindElements ==
    { StartElement(XMLName("u1", "b"), <<XMLAttr("", "id", "1")>>) }

\* the start elements of a document made for its text
TagElements ==
    { StartElement(XMLName("", "a"), << >>),
      StartElement(XMLName("u1", "b"), <<XMLAttr("", "id", "1")>>) }

-----------------------------------------------------------------------------
(* The token source: xml.Decoder, reduced to its stack of open elements    *)
(* and its sticky error; started counts the start elements it has          *)
(* returned, for the bound MaxElements.  starts and others are the start   *)
(* elements and the other tokens the document it reads is made of.  Strict *)
(* and CharsetReader are its two settings, and id tells one decoder from   *)
(* another.                                                                *)

\* xml.NewDecoder(r), r being a reader of a document made of starts and others
NewDecoder(starts, others) ==
    [stk |-> << >>, err |-> nil, started |-> 0, starts |-> starts, others |-> others,
     Strict |-> TRUE, CharsetReader |-> nil, id |-> "xml.NewDecoder(r)"]

\* a decoder the caller has made of the same document and set up
OwnDecoder(starts, others, strict, cr) ==
    [NewDecoder(starts, others) EXCEPT
       !.Strict = strict, !.CharsetReader = cr, !.id = "d"]

\* no decoder
nilDecoder == [isNil |-> TRUE]

Front(s) == SubSeq(s, 1, Len(s) - 1)

Last(s) == s[Len(s)]

\* decoder.Token(): the outcomes [token, err, decoder] of one call
DecoderToken(d) ==
    IF d.err # nil
    THEN {[token |-> nilToken, err |-> d.err, decoder |-> d]}
    ELSE { [token |-> t, err |-> nil,
            decoder |-> [d EXCEPT !.stk = Append(@, t.Name), !.started = @ + 1]] :
              t \in IF d.started < MaxElements THEN d.starts ELSE {} }
         \cup
         { [token |-> EndElement(Last(d.stk)), err |-> nil,
            decoder |-> [d EXCEPT !.stk = Front(@)]] :
              x \in IF d.stk # << >> THEN {1} ELSE {} }
         \cup
         { [token |-> t, err |-> nil, decoder |-> d] : t \in d.others }
         \cup
         { [token |-> nilToken, err |-> EOF, decoder |-> [d EXCEPT !.err = EOF]] :
              x \in IF d.stk = << >> THEN {1} ELSE {} }
         \cup
         { [token |-> nilToken, err |-> "syntax error",
            decoder |-> [d EXCEPT !.err = "syntax error"]] }

\* decoder.DecodeElement(v, &start): reads up to and including the end tag
\* that matches the start element on top of the decoder's stack, or fails
DecoderDecodeElement(d) ==
    IF d.err # nil
    THEN {[err |-> d.err, decoder |-> d]}
    ELSE { [err |-> nil, decoder |-> [d EXCEPT !.stk = Front(@)]],
           [err |-> "syntax error", decoder |-> [d EXCEPT !.err = "syntax error"]] }

-----------------------------------------------------------------------------
(* type urlStack (src/xpp.go) *)

\* urlStack.Top: nil on an empty stack
Top(s) == IF Len(s) = 0 THEN nilURL ELSE s[Len(s)]

\* urlStack.push
push(s, u) == Append(s, u)

\* pop without "*s = (*s)[:n-1]": the top is read and the stack keeps it
popKeepsTop(s) == s

\* urlStack.pop: the stack after the call; an empty stack is left alone
pop(s) == IF Len(s) = 0 THEN s ELSE SubSeq(s, 1, Len(s) - 1)

-----------------------------------------------------------------------------
(* The parser.  The operators below work on a record p of the fields of    *)
(* XMLPullParser (Spaces, SpacesStack, BaseStack, Depth, Event, Attrs,     *)
(* Name, Space, decoder, token) and of four history fields the properties  *)
(* read and the parser does not:                                           *)
(*   open    for every element the token source has open: its start tag,  *)
(*           what the cursor was before the start tag was read, and the    *)
(*           base URL the start tag pushed (pushedAt is its place in       *)
(*           BaseStack, 0 when it pushed none);                            *)
(*   closed  the entry of the element that was closed last;                *)
(*   skipped the events the call in progress has read and not returned;    *)
(*   read    the texts of the Text events Next has returned to the         *)
(*           NextText in progress.                                         *)

EmptyMap == [k \in {} |-> ""]

MapPut(m, k, v) == [x \in DOMAIN m \cup {k} |-> IF x = k THEN v ELSE m[x]]

NoElement == [name |-> "none"]

\* WithDecoder(d): the option, as the field it sets
WithDecoder(d) == [decoder |-> d]

\* "for _, fn := range opts { fn(p) }", from option i on
RECURSIVE ApplyOptions(_, _, _)
ApplyOptions(p, opts, i) ==
    IF i > Len(opts) THEN p
    ELSE ApplyOptions([p EXCEPT !.decoder = opts[i].decoder], opts, i + 1)

\* the parser NewXMLPullParser starts from
ZeroParser ==
    [ Spaces      |-> EmptyMap,
      SpacesStack |-> <<EmptyMap>>,
      BaseStack   |-> << >>,
      Depth       |-> 0,
      Event       |-> StartDocument,
      Attrs       |-> << >>,
      Name        |-> "",
      Space       |-> "",
      decoder     |-> nilDecoder,
      token       |-> nilToken,
      open        |-> << >>,
      closed      |-> NoElement,
      skipped     |-> {},
      read        |-> << >> ]

\* NewXMLPullParser without "p.decoder.Strict = strict"
NewXMLPullParserKeepsStrict(r, strict, cr, opts) ==
    LET p1 == ApplyOptions(ZeroParser, opts, 1)
        p2 == [p1 EXCEPT !.Spaces = p1.SpacesStack[1]]
        d  == IF p2.decoder = nilDecoder THEN r ELSE p2.decoder
    IN  [p2 EXCEPT !.decoder = [d EXCEPT !.CharsetReader = cr]]

\* NewXMLPullParser(r, strict, cr, opts...), r standing for the decoder
\* xml.NewDecoder(r) makes of the reader
NewXMLPullParser(r, strict, cr, opts) ==
    LET p1 == ApplyOptions(ZeroParser, opts, 1)
        p2 == [p1 EXCEPT !.Spaces = p1.SpacesStack[1]]
        d  == IF p2.decoder = nilDecoder THEN r ELSE p2.decoder
    IN  [p2 EXCEPT !.decoder = [d EXCEPT !.Strict = strict,
                                         !.CharsetReader = cr]]

\* resetTokenState that clears nothing
resetTokenStateKeeps(p) == p

\* resetTokenState
resetTokenState(p) == [p EXCEPT !.Attrs = << >>, !.Name = "", !.Space = ""]

\* the loop of trackNamespaces over t.Attr[i..], writing into newSpace
RECURSIVE trackAttrs(_, _, _)
trackAttrs(newSpace, attrs, i) ==
    IF i > Len(attrs) THEN newSpace
    ELSE LET attr == attrs[i]
         IN  IF attr.Name.Space = xmlnsPrefix
             THEN trackAttrs(MapPut(newSpace, TrimSpace(attr.Value),
                                    TrimSpace(ToLower(attr.Name.Local))),
                             attrs, i + 1)
             ELSE IF attr.Name.Local = xmlnsPrefix
             THEN trackAttrs(MapPut(newSpace, TrimSpace(attr.Value), ""),
                             attrs, i + 1)
             ELSE trackAttrs(newSpace, attrs, i + 1)

\* trackNamespaces: a copy of the current mapping with the element's
\* declarations, made current and pushed
trackNamespaces(p, t) ==
    LET newSpace == trackAttrs(p.Spaces, t.Attr, 1)
    IN  [p EXCEPT !.Spaces = newSpace, !.SpacesStack = Append(@, newSpace)]

\* the value of the first xml:base attribute of attrs, "" when there is none
baseAttrValue(attrs) ==
    LET at == {i \in 1..Len(attrs) :
                 attrs[i].Name.Local = "base" /\ attrs[i].Name.Space = xmlNSURI}
    IN  IF at = {} THEN ""
        ELSE attrs[CHOOSE i \in at : \A j \in at : i <= j].Value

\* pushBase: [p, err]
pushBase(p) ==
    LET base == baseAttrValue(p.Attrs)
    IN  IF base = "" THEN [p |-> p, err |-> nil]
        ELSE LET parsed == urlParse(base)
             IN  IF parsed.err # nil
                 THEN [p |-> p, err |-> "goxpp: " \o parsed.err]
                 ELSE LET topURL == Top(p.BaseStack)
                          newURL == IF topURL # nilURL
                                    THEN ResolveReference(topURL, parsed.url)
                                    ELSE parsed.url
                      IN  [p |-> [p EXCEPT !.BaseStack = push(@, newURL)],
                           err |-> nil]

\* popBase
popBase(p) == [p EXCEPT !.BaseStack = pop(@)]

\* processStartToken; the error of pushBase is dropped (_ = p.pushBase())
processStartToken(p, t) ==
    LET p1 == [p EXCEPT !.Depth = @ + 1,
                        !.Attrs = t.Attr,
                        !.Name = t.Name.Local,
                        !.Space = TrimSpace(t.Name.Space)]
        p2 == trackNamespaces(p1, t)
    IN  pushBase(p2).p

\* processEndToken without "p.Depth--"
processEndTokenKeepsDepth(p, t) ==
    LET stack == SubSeq(p.SpacesStack, 1, Len(p.SpacesStack) - 1)
    IN  popBase([p EXCEPT !.SpacesStack = stack,
                          !.Spaces = stack[Len(stack)],
                          !.Name = t.Name.Local])

\* processEndToken
processEndToken(p, t) ==
    LET stack == SubSeq(p.SpacesStack, 1, Len(p.SpacesStack) - 1)
    IN  popBase([p EXCEPT !.Depth = @ - 1,
                          !.SpacesStack = stack,
                          !.Spaces = stack[Len(stack)],
                          !.Name = t.Name.Local])

\* processToken
processToken(p, t) ==
    CASE t.kind = "StartElement" -> processStartToken(p, t)
      [] t.kind = "EndElement"   -> processEndToken(p, t)
      [] OTHER                   -> p

\* EventType
EventType(t) ==
    CASE t.kind = "StartElement" -> StartTag
      [] t.kind = "EndElement"   -> EndTag
      [] t.kind = "CharData"     -> Text
      [] t.kind = "Comment"      -> Comment
      [] t.kind = "ProcInst"     -> ProcessingInstruction
      [] t.kind = "Directive"    -> Directive
      [] OTHER                   -> 0

\* the test of DecodeElement with the prefix "xml" in place of xmlNSURI
hasBaseAttrByPrefix(attrs) ==
    \E i \in 1..Len(attrs) :
        attrs[i].Name.Space = "xml" /\ attrs[i].Name.Local = "base"

\* whether attrs holds an xml:base attribute, as DecodeElement looks for it
hasBaseAttr(attrs) ==
    \E i \in 1..Len(attrs) :
        attrs[i].Name.Space = xmlNSURI /\ attrs[i].Name.Local = "base"

\* History: the entry of an element whose start tag t took the cursor from
\* pre to post
OpenEntry(pre, post, t) ==
    [ name        |-> t.Name,
      attrs       |-> t.Attr,
      nth         |-> post.decoder.started,
      depth       |-> pre.Depth,
      Spaces      |-> pre.Spaces,
      SpacesStack |-> pre.SpacesStack,
      BaseStack   |-> pre.BaseStack,
      pushedAt    |-> IF Len(post.BaseStack) > Len(pre.BaseStack)
                      THEN Len(post.BaseStack) ELSE 0,
      pushed      |-> IF Len(post.BaseStack) > Len(pre.BaseStack)
                      THEN Top(post.BaseStack) ELSE nilURL,
      resolved    |-> FALSE ]

\* History: open and closed after token t took the cursor from pre to post
Track(pre, post, t) ==
    CASE t.kind = "StartElement" ->
           [post EXCEPT !.open = Append(@, OpenEntry(pre, post, t)),
                        !.closed = NoElement]
      [] t.kind = "EndElement" ->
           [post EXCEPT !.open = Front(@), !.closed = Last(pre.open)]
      [] OTHER -> [post EXCEPT !.closed = NoElement]

\* NextToken with end of input returned as the error it is
NextTokenEOFError(p, o) ==
    LET p1 == [resetTokenState(p) EXCEPT !.decoder = o.decoder]
    IN  IF o.err # nil
        THEN [p |-> p1, event |-> 0, err |-> "goxpp: " \o o.err]
        ELSE LET p2 == processToken([p1 EXCEPT !.token = o.token], o.token)
                 p3 == [p2 EXCEPT !.Event = EventType(o.token)]
             IN  [p |-> Track(p1, p3, o.token), event |-> p3.Event, err |-> nil]

\* NextToken, given the outcome o of its call of decoder.Token():
\* [p, event, err]
NextToken(p, o) ==
    LET p1 == [resetTokenState(p) EXCEPT !.decoder = o.decoder]
    IN  IF o.err # nil
        THEN IF o.err = EOF
             THEN [p |-> [p1 EXCEPT !.token = nilToken, !.Event = EndDocument],
                   event |-> EndDocument, err |-> nil]
             ELSE [p |-> p1, event |-> 0, err |-> "goxpp: " \o o.err]
        ELSE LET p2 == processToken([p1 EXCEPT !.token = o.token], o.token)
                 p3 == [p2 EXCEPT !.Event = EventType(o.token)]
             IN  [p |-> Track(p1, p3, o.token), event |-> p3.Event, err |-> nil]

-----------------------------------------------------------------------------
(* The navigation API.  A call that loops over tokens is given the number  *)
(* n of tokens it may still fetch; every result carries what is left of    *)
(* it.  A run that needs more than MaxRun tokens (MaxTextRun for           *)
(* NextText) is outside the model.                                         *)

\* Text: the text of the current token
TokenText(p) ==
    CASE p.token.kind \in {"CharData", "Comment", "Directive"} -> p.token.Data
      [] p.token.kind = "ProcInst" -> p.token.Target \o " " \o p.token.Inst
      [] OTHER -> ""

\* IsWhitespace
IsWhitespace(p) == TrimSpace(TokenText(p)) = ""

\* History: the call goes on to the next token and does not return the
\* event the cursor is on
Discard(p) == [p EXCEPT !.skipped = @ \cup {p.Event}]

\* Next that returns every event, as NextToken does
NextReturnsAll(p, n) ==
    IF n = 0 THEN {}
    ELSE { LET r == NextToken(p, o)
           IN  [p |-> r.p, event |-> r.event, err |-> r.err, n |-> n - 1]
           : o \in DecoderToken(p.decoder) }

\* Next: the results [p, event, err, n] of a call with n tokens to go
RECURSIVE Next(_, _)
Next(p, n) ==
    IF n = 0 THEN {}
    ELSE UNION {
           LET r == NextToken(p, o)
               here == [p |-> r.p, event |-> r.event, err |-> r.err, n |-> n - 1]
           IN  IF r.err # nil THEN {here}
               ELSE IF r.event \in {StartTag, EndTag, EndDocument, Text} THEN {here}
               ELSE IF r.event \in {Comment, Directive, ProcessingInstruction}
                    THEN Next(Discard(r.p), n - 1)
               ELSE {here}
           : o \in DecoderToken(p.decoder) }

\* NextTag without its loop and its test: whatever Next returned is returned
NextTagLoopAnyEvent(t) ==
    {[p |-> t.p, event |-> t.event, err |-> nil, n |-> t.n]}

\* the loop of NextTag and what follows it, t being the result of Next
RECURSIVE NextTagLoop(_)
NextTagLoop(t) ==
    IF t.event = Text /\ IsWhitespace(t.p)
    THEN UNION { IF t2.err # nil
                 THEN {[p |-> t2.p, event |-> 0, err |-> t2.err, n |-> t2.n]}
                 ELSE NextTagLoop(t2)
                 : t2 \in Next(Discard(t.p), t.n) }
    ELSE IF t.event # StartTag /\ t.event # EndTag
         THEN {[p |-> t.p, event |-> 0, n |-> t.n,
                err |-> "expected starttag or endtag"]}
         ELSE {[p |-> t.p, event |-> t.event, err |-> nil, n |-> t.n]}

\* NextTag: the results [p, event, err, n]
NextTag(p, n) ==
    UNION { IF t.err # nil
            THEN {[p |-> t.p, event |-> 0, err |-> t.err, n |-> t.n]}
            ELSE NextTagLoop(t)
            : t \in Next(p, n) }

\* History: the results of the call of Next that NextText makes on p, with
\* the Text events among them added to read
NextSeen(p, n) ==
    { IF t.err = nil /\ t.event = Text
      THEN [t EXCEPT !.p.read = Append(@, t.p.token.Data)]
      ELSE t
      : t \in Next(p, n) }

\* the loop of NextText writing each text before the result so far
RECURSIVE NextTextLoopPrepends(_, _)
NextTextLoopPrepends(t, result) ==
    IF t.event = Text
    THEN UNION { IF t2.err # nil
                 THEN {[p |-> t2.p, text |-> "", err |-> t2.err, n |-> t2.n]}
                 ELSE IF t2.event # EndTag /\ t2.event # Text
                 THEN {[p |-> t2.p, text |-> "", n |-> t2.n,
                        err |-> "event text must be immediately followed by endtag or text"]}
                 ELSE NextTextLoopPrepends(t2, TokenText(t.p) \o result)
                 : t2 \in NextSeen(t.p, t.n) }
    ELSE {[p |-> t.p, text |-> result, err |-> nil, n |-> t.n]}

\* the loop of NextText, t being the result of Next and result the text so far
RECURSIVE NextTextLoop(_, _)
NextTextLoop(t, result) ==
    IF t.event = Text
    THEN UNION { IF t2.err # nil
                 THEN {[p |-> t2.p, text |-> "", err |-> t2.err, n |-> t2.n]}
                 ELSE IF t2.event # EndTag /\ t2.event # Text
                 THEN {[p |-> t2.p, text |-> "", n |-> t2.n,
                        err |-> "event text must be immediately followed by endtag or text"]}
                 ELSE NextTextLoop(t2, result \o TokenText(t.p))
                 : t2 \in NextSeen(t.p, t.n) }
    ELSE {[p |-> t.p, text |-> result, err |-> nil, n |-> t.n]}

\* NextText without its test of the event it is called on
NextTextAnywhere(p, n) ==
    UNION { IF t.err # nil
            THEN {[p |-> t.p, text |-> "", err |-> t.err, n |-> t.n]}
            ELSE IF t.event # EndTag /\ t.event # Text
            THEN {[p |-> t.p, text |-> "", n |-> t.n,
                   err |-> "parser must be on endtag or text to read text"]}
            ELSE NextTextLoop(t, "")
            : t \in NextSeen(p, n) }

\* NextText: the results [p, text, err, n]
NextText(p, n) ==
    IF p.Event # StartTag
    THEN {[p |-> p, text |-> "", n |-> n,
           err |-> "parser must be on starttag to get nexttext()"]}
    ELSE UNION { IF t.err # nil
                 THEN {[p |-> t.p, text |-> "", err |-> t.err, n |-> t.n]}
                 ELSE IF t.event # EndTag /\ t.event # Text
                 THEN {[p |-> t.p, text |-> "", n |-> t.n,
                        err |-> "parser must be on endtag or text to read text"]}
                 ELSE NextTextLoop(t, "")
                 : t \in NextSeen(p, n) }

(* Skip calls itself on every StartTag and returns on an EndTag.  A call   *)
(* in progress is [p, frames, n, done, err]: frames is the number of Skip  *)
(* activations on the call stack.  "return nil" in the innermost           *)
(* activation goes on with the loop of the one below it, and returns to    *)
(* the caller when it was the only one; an error returns through all of    *)
(* them.                                                                   *)

\* a turn of Skip without the call of Skip on a StartTag
SkipTurnFlat(c) ==
    IF c.n = 0 THEN {}
    ELSE { LET r == NextToken(c.p, o)
               on == [p |-> r.p, frames |-> c.frames, n |-> c.n - 1,
                      done |-> FALSE, err |-> nil]
           IN  IF r.err # nil
               THEN [on EXCEPT !.frames = 0, !.done = TRUE, !.err = r.err]
               ELSE IF r.event = EndTag
               THEN [on EXCEPT !.frames = @ - 1, !.done = (c.frames = 1)]
               ELSE on
           : o \in DecoderToken(c.p.decoder) }

\* one turn of the loop of Skip in the innermost activation
SkipTurn(c) ==
    IF c.n = 0 THEN {}
    ELSE { LET r == NextToken(c.p, o)
               on == [p |-> r.p, frames |-> c.frames, n |-> c.n - 1,
                      done |-> FALSE, err |-> nil]
           IN  IF r.err # nil
               THEN [on EXCEPT !.frames = 0, !.done = TRUE, !.err = r.err]
               ELSE IF r.event = StartTag
               THEN [on EXCEPT !.frames = @ + 1]
               ELSE IF r.event = EndTag
               THEN [on EXCEPT !.frames = @ - 1, !.done = (c.frames = 1)]
               ELSE on
           : o \in DecoderToken(c.p.decoder) }

\* the calls in progress C, run until each has returned
RECURSIVE SkipRun(_)
SkipRun(C) ==
    LET running == {c \in C : ~c.done}
    IN  IF running = {} THEN C
        ELSE SkipRun((C \ running) \cup UNION {SkipTurn(c) : c \in running})

\* Skip: the results [p, err, n]
Skip(p, n) ==
    { [p |-> c.p, err |-> c.err, n |-> c.n] :
        c \in SkipRun({[p |-> p, frames |-> 1, n |-> n, done |-> FALSE, err |-> nil]}) }

\* DecodeElement: the results [p, err]
DecodeElement(p) ==
    IF p.Event # StartTag
    THEN {[p |-> p, err |-> "decodeelement can only be called from a starttag event"]}
    ELSE { LET startToken == p.token
               p1 == [p EXCEPT !.decoder = o.decoder]
           IN  IF o.err # nil
               THEN [p |-> p1, err |-> "goxpp: " \o o.err]
               ELSE LET name == p1.Name
                        p2 == [resetTokenState(p1) EXCEPT
                                 !.Event = EndTag,
                                 !.Depth = @ - 1,
                                 !.Name = name,
                                 !.token = nilToken,
                                 !.open = Front(@),
                                 !.closed = Last(p1.open)]
                    IN  [p |-> IF hasBaseAttr(startToken.Attr) THEN popBase(p2) ELSE p2,
                         err |-> nil]
           : o \in DecoderDecodeElement(p.decoder) }

\* strings.EqualFold on the strings of the model
EqualFold(s, t) == ToLower(s) = ToLower(t)

\* ExpectAll: the error it returns, nil when the cursor is as expected
ExpectAll(p, event, space, name) ==
    LET ok == /\ p.Event = event
              /\ (space = "*" \/ EqualFold(p.Space, space))
              /\ (name = "*" \/ EqualFold(p.Name, name))
    IN  IF ~ok THEN "expected space, name and event but got others" ELSE nil

\* Expect
Expect(p, event, name) == ExpectAll(p, event, "*", name)

\* the candidate URIs handed to XmlBaseResolveUrl
Candidates == {"z", "", "%zz"}

\* XmlBaseResolveUrl: [p, url, err]; the base on top of the stack is a
\* pointer, and the slash appended to its Path stays in the stack
XmlBaseResolveUrl(p, u) ==
    LET curr == Top(p.BaseStack)
    IN  IF curr = nilURL THEN [p |-> p, url |-> nilURL, err |-> nil]
        ELSE LET parsed == urlParse(u)
             IN  IF parsed.err # nil
                 THEN [p |-> p, url |-> nilURL, err |-> "goxpp: " \o parsed.err]
                 ELSE LET curr1 == IF curr.Path # << >> /\ u # ""
                                      /\ Last(curr.Path) # "/"
                                   THEN [curr EXCEPT !.Path = Append(@, "/")]
                                   ELSE curr
                          p1 == [p EXCEPT !.BaseStack[Len(p.BaseStack)] = curr1]
                      IN  [p |-> p1, url |-> ResolveReference(curr1, parsed.url),
                           err |-> nil]

-----------------------------------------------------------------------------
(* The state: the fields of one XMLPullParser, the history, the result ret *)
(* of the last call, and the arguments made of the call of                 *)
(* NewXMLPullParser that made the parser.                                  *)

VARIABLES Spaces, SpacesStack, BaseStack, Depth, Event, Attrs, Name, Space,
          decoder, token, open, closed, ret, made

vars == <<Spaces, SpacesStack, BaseStack, Depth, Event, Attrs, Name, Space,
          decoder, token, open, closed, ret, made>>

\* the parser as a record
Cur ==
    [ Spaces |-> Spaces, SpacesStack |-> SpacesStack, BaseStack |-> BaseStack,
      Depth |-> Depth, Event |-> Event, Attrs |-> Attrs, Name |-> Name,
      Space |-> Space, decoder |-> decoder, token |-> token,
      open |-> open, closed |-> closed, skipped |-> {}, read |-> << >> ]

\* the parser becomes q
Becomes(q) ==
    /\ Spaces' = q.Spaces
    /\ SpacesStack' = q.SpacesStack
    /\ BaseStack' = q.BaseStack
    /\ Depth' = q.Depth
    /\ Event' = q.Event
    /\ Attrs' = q.Attrs
    /\ Name' = q.Name
    /\ Space' = q.Space
    /\ decoder' = q.decoder
    /\ token' = q.token
    /\ open' = q.open
    /\ closed' = q.closed
    /\ made' = made

\* History: the event the cursor is on when a call is made, as far as the
\* properties tell calls apart by it: StartTag, EndDocument, or -1 for any
\* other event
From == IF Event \in {StartTag, EndDocument} THEN Event ELSE -1

\* History: h, the history of a call with result r, when the call returned
\* no error, and none otherwise
Kept(r, h, none) == IF r.err = nil THEN h ELSE none

\* what a call returned: its event, text or URL, and its error; from is the
\* event the cursor was on when the call was made and, of a call that
\* returned no error, skipped is the events it read and did not return and
\* read the texts Next returned to NextText
Returned(op, event, text, url, err) ==
    [op |-> op, from |-> From, event |-> event, text |-> text, url |-> url,
     err |-> err, skipped |-> {}, read |-> << >>]

\* the parser is p
Is(p) ==
    /\ Spaces = p.Spaces
    /\ SpacesStack = p.SpacesStack
    /\ BaseStack = p.BaseStack
    /\ Depth = p.Depth
    /\ Event = p.Event
    /\ Attrs = p.Attrs
    /\ Name = p.Name
    /\ Space = p.Space
    /\ decoder = p.decoder
    /\ token = p.token
    /\ open = p.open
    /\ closed = p.closed

\* the parser after NewXMLPullParser(r, strict, cr, opts...)
InitWith(r, strict, cr, opts) ==
    /\ Is(NewXMLPullParser(r, strict, cr, opts))
    /\ made = [strict |-> strict, cr |-> cr, opts |-> opts]
    /\ ret = [op |-> "NewXMLPullParser", from |-> -1, event |-> 0,
              text |-> "", url |-> nilURL, err |-> nil, skipped |-> {},
              read |-> << >>]

\* the parser after NewXMLPullParser(r, true, nil), on a document made of
\* starts and others
InitOn(starts, others) == InitWith(NewDecoder(starts, others), TRUE, nil, << >>)

\* the decoders a caller hands to WithDecoder
OwnDecoders(starts, others) ==
    { OwnDecoder(starts, others, strict, cr) :
        strict \in BOOLEAN, cr \in {nil, "own"} }

\* the parser after NewXMLPullParser with any arguments: strict or not, with
\* a CharsetReader or none, with no option, WithDecoder(d), or
\* WithDecoder(d) after another WithDecoder
InitAny(starts, others) ==
    \E strict \in BOOLEAN, cr \in {nil, "cr"} :
        \E opts \in {<< >>}
              \cup {<<WithDecoder(d)>> : d \in OwnDecoders(starts, others)}
              \cup {<<WithDecoder(nilDecoder), WithDecoder(d)>> :
                       d \in OwnDecoders(starts, others)} :
            InitWith(NewDecoder(starts, others), strict, cr, opts)

\* A decode error is fatal to the cursor: the token source keeps returning
\* it, and the caller makes no further call on this parser.
Usable == decoder.err \in {nil, EOF}

\* p.NextToken()
CallNextToken ==
    /\ Usable
    /\ \E o \in DecoderToken(decoder) :
        LET r == NextToken(Cur, o)
        IN  /\ Becomes(r.p)
            /\ ret' = Returned("NextToken", r.event, "", nilURL, r.err)

\* p.Next()
CallNext ==
    /\ Usable
    /\ \E r \in Next(Cur, MaxRun) :
        /\ Becomes(r.p)
        /\ ret' = [Returned("Next", r.event, "", nilURL, r.err)
                     EXCEPT !.skipped = Kept(r, r.p.skipped, {})]

\* p.NextTag()
CallNextTag ==
    /\ Usable
    /\ \E r \in NextTag(Cur, MaxRun) :
        /\ Becomes(r.p)
        /\ ret' = [Returned("NextTag", r.event, "", nilURL, r.err)
                     EXCEPT !.skipped = Kept(r, r.p.skipped, {})]

\* p.NextText()
CallNextText ==
    /\ Usable
    /\ \E r \in NextText(Cur, MaxTextRun) :
        /\ Becomes(r.p)
        /\ ret' = [Returned("NextText", 0, r.text, nilURL, r.err)
                     EXCEPT !.skipped = Kept(r, r.p.skipped, {}),
                            !.read = Kept(r, r.p.read, << >>)]

\* p.Skip()
CallSkip ==
    /\ Usable
    /\ \E r \in Skip(Cur, MaxRun) :
        /\ Becomes(r.p)
        /\ ret' = Returned("Skip", 0, "", nilURL, r.err)

\* p.DecodeElement(v)
CallDecodeElement ==
    /\ Usable
    /\ \E r \in DecodeElement(Cur) :
        /\ Becomes(r.p)
        /\ ret' = Returned("DecodeElement", 0, "", nilURL, r.err)

\* History: the innermost open element has resolved a URI against a base
Resolved(p) ==
    IF p.open = << >> THEN p
    ELSE [p EXCEPT !.open[Len(p.open)].resolved = TRUE]

\* p.XmlBaseResolveUrl(u)
CallXmlBaseResolveUrl ==
    /\ Usable
    /\ \E u \in Candidates :
        LET r == XmlBaseResolveUrl(Cur, u)
        IN  /\ Becomes(IF r.url # nilURL THEN Resolved(r.p) ELSE r.p)
            /\ ret' = Returned("XmlBaseResolveUrl", 0, "", r.url, r.err)

NextStep ==
    \/ CallNextToken
    \/ CallNext
    \/ CallNextTag
    \/ CallNextText
    \/ CallSkip
    \/ CallDecodeElement
    \/ CallXmlBaseResolveUrl

\* documents that declare base URLs
SpecBase == InitOn(BaseElements, FewTokens) /\ [][NextStep]_vars

\* documents that declare namespaces
SpecSpaces == InitOn(SpaceElements, FewTokens) /\ [][NextStep]_vars

\* documents with every kind of token between their tags
SpecTokens == InitOn(KindElements, KindTokens) /\ [][NextStep]_vars

\* documents with text and comments between their tags
SpecText == InitOn(TagElements, TextTokens) /\ [][NextStep]_vars

\* documents with a base URL that names a file
SpecFile == InitOn(FileElements, FewTokens) /\ [][NextStep]_vars

\* parsers made with every choice of arguments and options
SpecOptions == InitAny(KindElements, FewTokens) /\ [][NextStep]_vars

-----------------------------------------------------------------------------
(* Properties *)

\* the xml:base attribute, as the token source hands it to the parser
XMLBase == XMLName(xmlNSURI, "base")

\* the start tag of the open or closed element e carries xml:base
DeclaresBase(e) == \E i \in 1..Len(e.attrs) : e.attrs[i].Name = XMLBase

\* the start tag of e carries an xml:base that url.Parse rejects
DeclaresBadBase(attrs) ==
    \E i \in 1..Len(attrs) : attrs[i].Name = XMLBase /\ attrs[i].Value = "%zz"

\* the open elements whose start tag pushed a base URL
Pushers == {i \in 1..Len(open) : open[i].pushedAt > 0}

\* the nearest of them
Nearest == CHOOSE i \in Pushers : \A j \in Pushers : j <= i

\* the token source has reported no syntax error: the document is well
\* formed as far as it has been read
WellFormed == decoder.err # "syntax error"

\* the calls that advance the cursor token by token
Advances == {"NextToken", "Next", "NextTag", "NextText"}

\* C1: the namespace stack always has one entry more than Depth, after any
\* sequence of NextToken, Next, NextTag, NextText, Skip and DecodeElement
C1_StackLength == WellFormed => Len(SpacesStack) = Depth + 1

\* C2: the top of BaseStack is the entry pushed by the nearest open element
\* that pushed one, and BaseStack is empty when no open element pushed one
C2_TopIsNearestBase ==
    WellFormed =>
        IF Pushers = {} THEN BaseStack = << >>
        ELSE Len(BaseStack) = open[Nearest].pushedAt

\* C3: Depth is the number of elements that are open: a StartTag read at
\* depth k leaves k + 1, the matching EndTag (read, or made by DecodeElement)
\* leaves k, nothing else changes Depth, and Depth is never negative
C3_DepthBrackets ==
    /\ Depth >= 0
    /\ Depth = Len(open)
    /\ Depth = Len(decoder.stk)
    /\ Event = StartTag => Depth = Last(open).depth + 1
    /\ (Event = EndTag /\ closed # NoElement) => Depth = closed.depth

\* C3: an EndTag has brought Depth back to 1 inside an open element
C3_Witness ==
    /\ Event = EndTag
    /\ closed # NoElement
    /\ closed.depth = 1
    /\ Depth = 1

\* C4: a Skip that starts on a StartTag and returns no error has read up to
\* the end tag of that element and no further: the event is that EndTag and
\* Depth is what it was before the StartTag
C4_SkipRestoresDepth ==
    [][ (ret'.op = "Skip" /\ ret'.err = nil /\ Event = StartTag) =>
          /\ Event' = EndTag
          /\ Depth' = Last(open).depth
          /\ closed' = Last(open)
          /\ open' = Front(open)
          /\ decoder'.stk = Front(decoder.stk)
          /\ Name' = Last(open).name.Local ]_vars

\* C4: Skip, called on the StartTag of the first element, has returned on its
\* end tag after a second element that was inside it
C4_Witness ==
    /\ ret.op = "Skip"
    /\ ret.from = StartTag
    /\ ret.err = nil
    /\ Event = EndTag
    /\ closed # NoElement
    /\ closed.nth = 1
    /\ decoder.started = 2
    /\ Depth = 0

\* what C5 compares of the cursor
CursorState(p) == <<p.Depth, p.Event, p.Name, p.Spaces, p.SpacesStack, p.BaseStack>>

\* C5: on a StartTag, a DecodeElement that succeeds leaves the cursor as a
\* Skip that succeeds leaves it
C5_DecodeLikeSkip ==
    Event = StartTag =>
        \A d \in DecodeElement(Cur) : \A s \in Skip(Cur, MaxRun) :
            (d.err = nil /\ s.err = nil) => CursorState(d.p) = CursorState(s.p)

\* C6: a DecodeElement that succeeds leaves Depth one less, the event EndTag,
\* the name of the decoded element, no attributes and no namespace, and
\* BaseStack without its top entry when the element carries xml:base (an
\* empty stack has no entry to lose) and as it was when it does not
C6_DecodeElementEffect ==
    [][ (ret'.op = "DecodeElement" /\ ret'.err = nil) =>
          /\ Depth' = Depth - 1
          /\ Event' = EndTag
          /\ Name' = Last(open).name.Local
          /\ Attrs' = << >>
          /\ Space' = ""
          /\ BaseStack' = IF DeclaresBase(Last(open))
                          THEN SubSeq(BaseStack, 1, Len(BaseStack) - 1)
                          ELSE BaseStack ]_vars

\* C6: DecodeElement has decoded an element that pushed a base URL, and the
\* entry is gone
C6_Witness ==
    /\ ret.op = "DecodeElement"
    /\ ret.err = nil
    /\ closed # NoElement
    /\ DeclaresBase(closed)
    /\ closed.pushedAt > 0
    /\ Len(BaseStack) = closed.pushedAt - 1

\* the base as XmlBaseResolveUrl is to use it: a directory
AsDirectory(base, u) ==
    IF base.Path # << >> /\ u # "" /\ Last(base.Path) # "/"
    THEN [base EXCEPT !.Path = Append(@, "/")]
    ELSE base

\* C7: inside an element, XmlBaseResolveUrl resolves against the base of the
\* nearest open element that declared one, and so, once an inner element has
\* closed, against the base of the element around it
C7_ResolveUsesOwnBase ==
    WellFormed =>
        \A u \in {"z", ""} :
            XmlBaseResolveUrl(Cur, u).url =
                IF Pushers = {} THEN nilURL
                ELSE ResolveReference(AsDirectory(open[Nearest].pushed, u),
                                      urlParse(u).url)

\* C8: an element that carries xml:base and was opened with no base in force
\* leaves none behind when it closes: BaseStack is what it was, and every
\* resolution answers "no base" again
C8_NoLeak ==
    (Event = EndTag /\ closed # NoElement /\ DeclaresBase(closed)
       /\ closed.BaseStack = << >>) =>
        /\ BaseStack = closed.BaseStack
        /\ \A u \in Candidates :
             /\ XmlBaseResolveUrl(Cur, u).url = nilURL
             /\ XmlBaseResolveUrl(Cur, u).err = nil

\* C8: an element was opened with no base in force, pushed one, resolved a
\* URI against it and has closed
C8_Witness ==
    /\ Event = EndTag
    /\ closed # NoElement
    /\ closed.BaseStack = << >>
    /\ closed.pushedAt = 1
    /\ closed.resolved
    /\ BaseStack = << >>

\* C9: the call that opens an element with an unparsable xml:base returns an
\* error; the base is not pushed, and the stack is what it was before the
\* element, inside it and after it has closed
C9_BadBaseReported ==
    WellFormed =>
        /\ (ret.op \in Advances /\ Event = StartTag /\ DeclaresBadBase(Attrs)) =>
              ret.err # nil
        /\ (Event = StartTag /\ DeclaresBadBase(Last(open).attrs)) =>
              BaseStack = Last(open).BaseStack
        /\ (Event = EndTag /\ closed # NoElement /\ DeclaresBadBase(closed.attrs)) =>
              BaseStack = closed.BaseStack

\* C10: once an element has closed, by its end tag, by Skip or by
\* DecodeElement, the current mapping is the one that was current before its
\* StartTag, and the mappings that were on the stack then are on it unchanged
C10_ScopeRestored ==
    (WellFormed /\ Event = EndTag /\ closed # NoElement) =>
        /\ Spaces = closed.Spaces
        /\ Len(SpacesStack) >= Len(closed.SpacesStack)
        /\ SubSeq(SpacesStack, 1, Len(closed.SpacesStack)) = closed.SpacesStack

\* C11: on the end tag NextToken has read, Name and Space are the local name
\* and the namespace of the element that closes, so ExpectAll(EndTag, ns,
\* name) with that element's namespace and name succeeds, and Expect(EndTag,
\* "a") succeeds on the end tag of a and fails on the end tag of b
C11_EndTagIdentity ==
    (WellFormed /\ Event = EndTag /\ token.kind = "EndElement") =>
        /\ Name = closed.name.Local
        /\ Space = TrimSpace(closed.name.Space)
        /\ ExpectAll(Cur, EndTag, closed.name.Space, closed.name.Local) = nil
        /\ (Expect(Cur, EndTag, "a") = nil) <=> (closed.name.Local = "a")

\* C12: end of input is no error: the NextToken or Next that meets it, for
\* the first time or again, returns EndDocument and a nil error, leaves the
\* cursor on EndDocument, and leaves Depth, SpacesStack and BaseStack alone
C12_EndOfInput ==
    [][ (ret'.op \in {"NextToken", "Next"} /\ decoder'.err = EOF) =>
          /\ ret'.event = EndDocument
          /\ ret'.err = nil
          /\ Event' = EndDocument
          /\ Depth' = Depth
          /\ SpacesStack' = SpacesStack
          /\ BaseStack' = BaseStack ]_vars

\* C12: on an empty document the first advance has returned EndDocument, and
\* so has a later one
C12_Witness ==
    /\ ret.op = "Next"
    /\ ret.from = EndDocument
    /\ ret.event = EndDocument
    /\ ret.err = nil
    /\ decoder.started = 0
    /\ Event = EndDocument

\* what the cursor keeps of the document around it
Scope == <<Depth, SpacesStack, BaseStack>>

\* C13: a Next that returns no error returns StartTag, EndTag, Text or
\* EndDocument, never Comment, Directive or ProcessingInstruction, and the
\* cursor is on the event returned; the tokens it skipped have changed
\* neither Depth nor the stacks: they are what they were when the event is
\* Text or EndDocument, and differ by the one element a returned tag opens
\* or closes
C13_NextSkips ==
    [][ (ret'.op = "Next" /\ ret'.err = nil) =>
          /\ ret'.event \in {StartTag, EndTag, Text, EndDocument}
          /\ Event' = ret'.event
          /\ ret'.skipped \subseteq {Comment, Directive, ProcessingInstruction}
          /\ ret'.event \in {Text, EndDocument} => Scope' = Scope
          /\ ret'.event = StartTag =>
                /\ Depth' = Depth + 1
                /\ Front(SpacesStack') = SpacesStack
          /\ ret'.event = EndTag =>
                /\ Depth' = Depth - 1
                /\ SpacesStack' = Front(SpacesStack) ]_vars

\* C13: Next has read a comment and a directive and returned the text after
\* them
C13_Witness ==
    /\ ret.op = "Next"
    /\ ret.err = nil
    /\ ret.skipped = {Comment, Directive}
    /\ ret.event = Text
    /\ Event = Text
    /\ Depth = 1

\* the error of NextTag on an event that is no tag
TagExpected == "expected starttag or endtag"

RECURSIVE Join(_)
Join(seq) == IF seq = << >> THEN "" ELSE seq[1] \o Join(SubSeq(seq, 2, Len(seq)))

\* C15: on a well-formed document a NextText called on a StartTag ends on the
\* first EndTag, which closes that element, and returns the texts of the Text
\* events before it, in their order, with nothing between them, the
\* comments, directives and processing instructions being skipped; or it
\* meets a StartTag or EndDocument first and returns an error and no text
C15_NextTextConcatenates ==
    [][ (ret'.op = "NextText" /\ Event = StartTag
           /\ decoder'.err # "syntax error") =>
          IF Event' = EndTag
          THEN /\ ret'.err = nil
               /\ ret'.text = Join(ret'.read)
               /\ ret'.skipped \subseteq {Comment, Directive, ProcessingInstruction}
               /\ closed' = Last(open)
               /\ Depth' = Depth - 1
          ELSE /\ Event' \in {StartTag, EndDocument}
               /\ ret'.err # nil
               /\ ret'.text = "" ]_vars

\* C15: NextText has read hello, a comment, world and the end tag, and
\* returned helloworld
C15_Witness ==
    /\ ret.op = "NextText"
    /\ ret.from = StartTag
    /\ ret.err = nil
    /\ ret.read = <<"hello", "world">>
    /\ ret.skipped = {Comment}
    /\ ret.text = "helloworld"
    /\ Event = EndTag

\* C15: NextText has read the end tag at once and returned the empty text
C15_WitnessEmpty ==
    /\ ret.op = "NextText"
    /\ ret.from = StartTag
    /\ ret.err = nil
    /\ ret.read = << >>
    /\ ret.skipped = {}
    /\ ret.text = ""
    /\ Event = EndTag

\* C16: Attrs holds attributes only on a StartTag, and then those of that
\* element; on Text, Comment, Directive, ProcessingInstruction and
\* EndDocument there is no name, no namespace and no attribute
C16_NoStaleData ==
    /\ Attrs # << >> => (Event = StartTag /\ Attrs = Last(open).attrs)
    /\ Event \in {Text, Comment, Directive, ProcessingInstruction, EndDocument} =>
          (Name = "" /\ Space = "" /\ Attrs = << >>)

\* C16: the cursor has gone from the StartTag of an element with an attribute
\* to the text inside it
C16_Witness ==
    /\ ret.op = "NextToken"
    /\ ret.from = StartTag
    /\ Event = Text
    /\ open # << >>
    /\ Last(open).attrs # << >>
    /\ Attrs = << >>
    /\ Name = ""

\* C18: a NextText or a DecodeElement called on an event that is no StartTag
\* returns an error, fetches no token and leaves the cursor as it was
C18_OnlyOnStartTag ==
    [][ (ret'.op \in {"NextText", "DecodeElement"} /\ Event # StartTag) =>
          /\ ret'.err # nil
          /\ decoder' = decoder
          /\ UNCHANGED <<Event, Depth, Name, Space, Attrs, SpacesStack,
                         BaseStack, Spaces, token, open, closed>> ]_vars

\* C18: DecodeElement has been called on a Text inside an element and has
\* returned its error
C18_Witness ==
    /\ ret.op = "DecodeElement"
    /\ ret.from # StartTag
    /\ ret.err = "decodeelement can only be called from a starttag event"
    /\ Event = Text
    /\ Depth = 1
    /\ decoder.err = nil

\* C18: NextText has been called on an EndTag and has returned its error
C18_WitnessText ==
    /\ ret.op = "NextText"
    /\ ret.from # StartTag
    /\ ret.err = "parser must be on starttag to get nexttext()"
    /\ Event = EndTag
    /\ decoder.err = nil

\* the decoder the last WithDecoder of opts hands over, none without one
Supplied(opts) == IF opts = << >> THEN nilDecoder ELSE Last(opts).decoder

\* C17: the decoder the parser uses has the strict and the CharsetReader
\* NewXMLPullParser was called with, whatever its own were; it is the decoder
\* WithDecoder supplied when one was supplied, and the one made of the
\* reader when none was
C17_ArgumentsForced ==
    /\ decoder.Strict = made.strict
    /\ decoder.CharsetReader = made.cr
    /\ decoder.id = IF Supplied(made.opts) = nilDecoder
                    THEN "xml.NewDecoder(r)" ELSE "d"

\* C17: a decoder with Strict = true was handed to a constructor called with
\* strict = false; the parser reads its tokens from it, and its Strict is
\* false
C17_Witness ==
    /\ made.strict = FALSE
    /\ Len(made.opts) = 1
    /\ made.opts[1].decoder.Strict = TRUE
    /\ made.opts[1].decoder.CharsetReader = "own"
    /\ made.cr = nil
    /\ decoder.id = "d"
    /\ decoder.Strict = FALSE
    /\ decoder.CharsetReader = nil
    /\ Event = StartTag

\* C19: XmlBaseResolveUrl only reads the cursor: whatever the candidate URI,
\* BaseStack is after the call what it was before it, the URLs in it
\* included
C19_ResolveIsPure ==
    [][ ret'.op = "XmlBaseResolveUrl" => BaseStack' = BaseStack ]_vars

\* a call of Skip on p that has fetched no token yet
SkipCall(p, n) == [p |-> p, frames |-> 1, n |-> n, done |-> FALSE, err |-> nil]

\* the calls of Skip in progress or returned that the calls C lead to
RECURSIVE SkipReach(_)
SkipReach(C) ==
    LET more == C \cup UNION {SkipTurn(c) : c \in {x \in C : ~x.done}}
    IN  IF more = C THEN C ELSE SkipReach(more)

\* C20: a Skip, whatever event and depth it is called on, returns once the
\* token source has reported end of input: it fetches some more tokens at
\* most, MaxRun of them here, and is back with its caller
C20_SkipReturnsAtEnd ==
    \A c \in SkipReach({SkipCall(Cur, MaxRun)}) :
        (~c.done /\ c.p.decoder.err = EOF) =>
            SkipRun({[c EXCEPT !.n = MaxRun]}) # {}

====
